---------------------------- MODULE Spec2Model ----------------------------
(***************************************************************************)
(* Model of weather-metrics: metrics.py (Metrics, MetricsRegistry and the  *)
(* class-level prefix namespace), dataframes.py (the schema-gated           *)
(* filter_metrics) and the registries main.py builds.                       *)
(*                                                                          *)
(* Python str values that the code transforms (metric names, full names,   *)
(* requested names) are sequences of one-character strings, so that        *)
(* str.upper, str.split and str.join are computed character by character.  *)
(* Prefixes and units, which the code only formats, compares and            *)
(* concatenates, are TLA+ strings.  Optional[X] is a sequence of length 0  *)
(* (None) or 1.                                                             *)
(***************************************************************************)
EXTENDS Naturals, Sequences, FiniteSets, TLC

VARIABLES
    registries_prefixes,  \* MetricsRegistry._registries_prefixes (class attribute)
    registries,           \* every MetricsRegistry object whose __init__ returned
    threads,              \* constructions running concurrently, each at a pc
    call,                 \* the call being served: its name and arguments
    ret                   \* what the call returned or raised

vars == <<registries_prefixes, registries, threads, call, ret>>

None == <<>>
Some(x) == <<x>>

-----------------------------------------------------------------------------
(* str                                                                     *)

LowerCase == <<"a","b","c","d","e","f","g","h","i","j","k","l","m",
               "n","o","p","q","r","s","t","u","v","w","x","y","z">>
UpperCase == <<"A","B","C","D","E","F","G","H","I","J","K","L","M",
               "N","O","P","Q","R","S","T","U","V","W","X","Y","Z">>
Whitespace == {" "}

UpperChar(c) ==
    IF \E i \in 1..Len(LowerCase) : LowerCase[i] = c
    THEN UpperCase[CHOOSE i \in 1..Len(LowerCase) : LowerCase[i] = c]
    ELSE c

\* str.upper()
StrUpper(s) == [i \in 1..Len(s) |-> UpperChar(s[i])]

\* str.split() with no separator: the maximal runs of non-whitespace.
RECURSIVE SplitFrom(_, _, _)
SplitFrom(s, i, word) ==
    IF i > Len(s)
    THEN IF word = <<>> THEN <<>> ELSE <<word>>
    ELSE IF s[i] \in Whitespace
         THEN IF word = <<>> THEN SplitFrom(s, i + 1, <<>>)
              ELSE <<word>> \o SplitFrom(s, i + 1, <<>>)
         ELSE SplitFrom(s, i + 1, Append(word, s[i]))

StrSplit(s) == SplitFrom(s, 1, <<>>)

\* sep.join(words)
RECURSIVE StrJoin(_, _)
StrJoin(sep, words) ==
    IF words = <<>> THEN <<>>
    ELSE IF Len(words) = 1 THEN words[1]
    ELSE words[1] \o sep \o StrJoin(sep, Tail(words))

-----------------------------------------------------------------------------
(* Aggregation and Metrics                                                 *)

Aggregation == {"LAST", "MAX", "MEAN", "MIN", "SUM"}

\* The str value of an Aggregation member, as name + "_" + aggregation uses it.
AggregationValue(a) ==
    CASE a = "LAST" -> <<"L","A","S","T">>
      [] a = "MAX"  -> <<"M","A","X">>
      [] a = "MEAN" -> <<"M","E","A","N">>
      [] a = "MIN"  -> <<"M","I","N">>
      [] a = "SUM"  -> <<"S","U","M">>

\* @validator("name"): "_".join(value.upper().split())
upper(value) == StrJoin(<<"_">>, StrSplit(StrUpper(value)))

\* Metrics(name=..., unit=..., is_cumulative=..., aggregation=...)
Metrics(name, unit, is_cumulative, aggregation) ==
    [name |-> upper(name), unit |-> unit,
     is_cumulative |-> is_cumulative, aggregation |-> aggregation]

\* A full name that leaves the aggregation out.
full_name_is_name(m) == m.name

\* Metrics.full_name
full_name(m) ==
    IF m.aggregation # None
    THEN m.name \o <<"_">> \o AggregationValue(m.aggregation[1])
    ELSE m.name

\* Metrics.table_column
table_column(m) == IF m.is_cumulative THEN "SUM" ELSE "VALUE"

\* Metrics.dict(): the fields as a mapping, the "aggregation" key popped when
\* its value is None.
dict(m) ==
    IF m.aggregation = None
    THEN [name |-> m.name, unit |-> m.unit, is_cumulative |-> m.is_cumulative]
    ELSE [name |-> m.name, unit |-> m.unit, is_cumulative |-> m.is_cumulative,
          aggregation |-> m.aggregation]

\* The call Metrics with the keywords of d and aggregation=agg: a keyword given twice is a TypeError raised
\* by the call itself; otherwise the constructor runs (and the name validator
\* with it).
MetricsFromDict(d, agg) ==
    IF "aggregation" \in DOMAIN d
    THEN [raised |-> "TypeError", value |-> None]
    ELSE [raised |-> "",
          value |-> Some(Metrics(d.name, d.unit, d.is_cumulative, Some(agg)))]

-----------------------------------------------------------------------------
(* dict: a Python dict is the sequence of its items in insertion order     *)

DictKeys(d) == [i \in 1..Len(d) |-> d[i].key]
DictValues(d) == [i \in 1..Len(d) |-> d[i].value]
DictHas(d, k) == \E i \in 1..Len(d) : d[i].key = k
DictGet(d, k) == d[CHOOSE i \in 1..Len(d) : d[i].key = k].value

\* d[k] = v: a new key goes last, a known key keeps its place and takes v.
DictSet(d, k, v) ==
    IF DictHas(d, k)
    THEN [i \in 1..Len(d) |-> IF d[i].key = k THEN [key |-> k, value |-> v] ELSE d[i]]
    ELSE Append(d, [key |-> k, value |-> v])

\* A comprehension in which the first metrics bound to a key stays.
RECURSIVE MetricsByFullNameFirstWins(_, _)
MetricsByFullNameFirstWins(d, metrics) ==
    IF metrics = <<>> THEN d
    ELSE MetricsByFullNameFirstWins(
             IF DictHas(d, full_name(Head(metrics))) THEN d
             ELSE DictSet(d, full_name(Head(metrics)), Head(metrics)),
             Tail(metrics))

\* {metrics.full_name: metrics for metrics in metrics}, from left to right
RECURSIVE MetricsByFullName(_, _)
MetricsByFullName(d, metrics) ==
    IF metrics = <<>> THEN d
    ELSE MetricsByFullName(DictSet(d, full_name(Head(metrics)), Head(metrics)),
                           Tail(metrics))

-----------------------------------------------------------------------------
(* MetricsRegistry                                                         *)

\* f"{prefix}" for a str prefix
FormatPrefix(prefix) == prefix

\* MetricsRegistry._get_prefixes
get_prefixes(prefixes) == DOMAIN prefixes

\* MetricsRegistry._add_prefix: cls._registries_prefixes[prefix] = prefix
add_prefix(prefixes, prefix) ==
    [p \in (DOMAIN prefixes) \cup {prefix} |-> IF p = prefix THEN prefix ELSE prefixes[p]]

\* self._prefix = f"{prefix}" if prefix is not None else ""
PrefixOf(prefix) == IF prefix # None THEN FormatPrefix(prefix[1]) ELSE ""

\* The attributes __init__ sets before it looks at the namespace.
NewRegistry(metrics, prefix) ==
    [metrics |-> MetricsByFullName(<<>>, metrics), prefix |-> PrefixOf(prefix)]

\* An __init__ that registers its prefix without looking it up.
InitWithoutCheck(prefixes, metrics, prefix) ==
    LET self == NewRegistry(metrics, prefix)
    IN  [raised |-> "", prefixes |-> add_prefix(prefixes, self.prefix),
         self |-> Some(self)]

\* MetricsRegistry.__init__(metrics, prefix), run without interruption: the
\* namespace after the call, the object when the call returned, the exception
\* when it raised.
MetricsRegistryInit(prefixes, metrics, prefix) ==
    LET self == NewRegistry(metrics, prefix)
    IN  IF self.prefix \in get_prefixes(prefixes)
        THEN [raised |-> "ValueError", prefixes |-> prefixes, self |-> None]
        ELSE [raised |-> "", prefixes |-> add_prefix(prefixes, self.prefix),
              self |-> Some(self)]

\* A list has the element x.
InList(x, list) == \E i \in 1..Len(list) : list[i] = x

\* A filter that compares the requested names as given.
FilteredMetricsNoUpper(self, metrics) ==
    LET kept == SelectSeq(self.metrics, LAMBDA item : InList(item.key, metrics))
    IN  DictValues(kept)

\* _metrics_included and _filtered_metrics of generate_registry_by_filtering
FilteredMetrics(self, metrics) ==
    LET _metrics_included == [i \in 1..Len(metrics) |-> StrUpper(metrics[i])]
        kept == SelectSeq(self.metrics,
                          LAMBDA item : InList(item.key, _metrics_included))
    IN  DictValues(kept)

\* MetricsRegistry.generate_registry_by_filtering(metrics, prefix)
generate_registry_by_filtering(prefixes, self, metrics, prefix) ==
    MetricsRegistryInit(prefixes, FilteredMetrics(self, metrics), Some(prefix))

\* MetricsRegistry.list_all_metrics_names
list_all_metrics_names(self) == DictKeys(self.metrics)

\* A lookup with the key as given.
get_metrics_by_full_name_as_given(self, name) ==
    IF DictHas(self.metrics, name)
    THEN [raised |-> "", value |-> Some(DictGet(self.metrics, name))]
    ELSE [raised |-> "KeyError", value |-> None]

\* MetricsRegistry.get_metrics_by_full_name: self._metrics[str(full_name).upper()]
get_metrics_by_full_name(self, name) ==
    LET key == StrUpper(name)
    IN  IF DictHas(self.metrics, key)
        THEN [raised |-> "", value |-> Some(DictGet(self.metrics, key))]
        ELSE [raised |-> "KeyError", value |-> None]

\* enum: a _sunder_ name (one underscore at each end, more than two characters)
IsSunder(name) ==
    /\ Len(name) > 2
    /\ name[1] = "_" /\ name[Len(name)] = "_"
    /\ name[2] # "_" /\ name[Len(name) - 1] # "_"

\* enum: a __dunder__ name (two underscores at each end, more than four characters)
IsDunder(name) ==
    /\ Len(name) > 4
    /\ name[1] = "_" /\ name[2] = "_"
    /\ name[Len(name) - 1] = "_" /\ name[Len(name)] = "_"
    /\ name[3] # "_" /\ name[Len(name) - 2] # "_"

\* Enum(value=..., names=[(name, value), ...], type=str), the functional API:
\* each pair is stored in the class namespace of the new enumeration, which
\* refuses a _sunder_ name (ValueError) and keeps a __dunder__ name as a plain
\* attribute, not a member.
EnumFunctional(value, names) ==
    IF \E i \in 1..Len(names) : IsSunder(names[i][1])
    THEN [raised |-> "ValueError", value |-> None]
    ELSE [raised |-> "",
          value |-> Some([name |-> value,
                          members |-> SelectSeq(names, LAMBDA n : ~IsDunder(n[1]))])]

\* An enumeration named after the suffix alone.
get_enum_without_prefix(self) ==
    EnumFunctional("Metrics",
                   [i \in 1..Len(self.metrics) |->
                       <<self.metrics[i].key, self.metrics[i].key>>])

\* MetricsRegistry.get_enum_from_metrics
get_enum_from_metrics(self) ==
    EnumFunctional(self.prefix \o "Metrics",
                   [i \in 1..Len(self.metrics) |->
                       <<self.metrics[i].key, self.metrics[i].key>>])

-----------------------------------------------------------------------------
(* The module-level objects of metrics.py                                  *)

TEMPERATURE ==
    Metrics(<<"t","e","m","p","e","r","a","t","u","r","e">>, "C", FALSE, None)
TEMPERATURE_MIN == MetricsFromDict(dict(TEMPERATURE), "MIN").value[1]
TEMPERATURE_MAX == MetricsFromDict(dict(TEMPERATURE), "MAX").value[1]
TEMPERATURE_MEAN == MetricsFromDict(dict(TEMPERATURE), "MEAN").value[1]
TEMPERATURE_LAST == MetricsFromDict(dict(TEMPERATURE), "LAST").value[1]
RAIN_FALL == Metrics(<<"r","a","i","n"," ","f","a","l","l">>, "C", TRUE, None)
WIND_SPEED_2M ==
    Metrics(<<"w","i","n","d"," ","s","p","e","e","d"," ","a","t"," ","2","m">>,
            "km/h", FALSE, None)

\* MAIN_METRICS_REGISTRY = MetricsRegistry(metrics=[...])
MainCreated ==
    MetricsRegistryInit(<<>>, <<TEMPERATURE, RAIN_FALL, WIND_SPEED_2M>>, None)
MAIN_METRICS_REGISTRY == MainCreated.self[1]

\* METRICS_AND_AGGREGATION_REGISTRY = MetricsRegistry(metrics=[...], prefix="Aggregated")
AggregatedCreated ==
    MetricsRegistryInit(MainCreated.prefixes,
        <<TEMPERATURE_MIN, TEMPERATURE_MAX, TEMPERATURE_MEAN, TEMPERATURE_LAST>>,
        Some("Aggregated"))
METRICS_AND_AGGREGATION_REGISTRY == AggregatedCreated.self[1]

-----------------------------------------------------------------------------
(* Inputs                                                                  *)

MaxMetrics == 2   \* longest list of Metrics given to a constructor
MaxNames == 2     \* longest list of requested names

\* All sequences over S of length at most n.
SeqsUpTo(S, n) == UNION {[1..k -> S] : k \in 0..n}

\* Metrics given to constructors: two that differ only by aggregation, one
\* whose name alone spells the full name of another, one with a reserved name.
MetricsPool ==
    {TEMPERATURE, TEMPERATURE_MIN,
     Metrics(<<"t","e","m","p","e","r","a","t","u","r","e"," "," ","m","i","n">>,
             "K", TRUE, None),
     Metrics(<<"_","t","_">>, "C", FALSE, None)}

PrefixArgs == {None, Some(""), Some("Aggregated"), Some("Partial")}

\* Names asked of a registry, in several casings, known and unknown.
RequestedNames ==
    {<<"t","e","m","p","e","r","a","t","u","r","e","_","m","i","n">>,
     <<"T","E","M","P","E","R","A","T","U","R","E","_","M","I","N">>,
     <<"T","e","m","p","e","r","a","t","u","r","e">>,
     <<"R","A","I","N","F","A","L","L">>,
     <<"_","t","_">>}

-----------------------------------------------------------------------------
(* Sequential use: one call at a time, from the state metrics.py leaves    *)
(* behind when it is imported.                                             *)

Idle == [op |-> "idle", self |-> 0, metrics |-> <<>>, prefix |-> None, name |-> <<>>]
NoRet == [raised |-> "", value |-> None]

NoThreads == <<>>

Init ==
    /\ registries_prefixes = AggregatedCreated.prefixes
    /\ registries = <<MAIN_METRICS_REGISTRY, METRICS_AND_AGGREGATION_REGISTRY>>
    /\ threads = NoThreads
    /\ call = Idle
    /\ ret = NoRet

\* MetricsRegistry(metrics=metrics, prefix=prefix), or MetricsRegistry(metrics)
\* when prefix is None.
Construct(metrics, prefix) ==
    LET r == MetricsRegistryInit(registries_prefixes, metrics, prefix)
    IN  /\ call.op = "idle"
        /\ registries_prefixes' = r.prefixes
        /\ registries' = IF r.raised = "" THEN Append(registries, r.self[1])
                         ELSE registries
        /\ call' = [Idle EXCEPT !.op = "__init__", !.metrics = metrics,
                                !.prefix = prefix]
        /\ ret' = [raised |-> r.raised,
                   value |-> IF r.raised = "" THEN Some(Len(registries) + 1)
                             ELSE None]
        /\ UNCHANGED threads

\* registries[self].generate_registry_by_filtering(metrics=names, prefix=prefix)
GenerateRegistryByFiltering(self, names, prefix) ==
    LET r == generate_registry_by_filtering(registries_prefixes, registries[self],
                                            names, prefix)
    IN  /\ call.op = "idle"
        /\ registries_prefixes' = r.prefixes
        /\ registries' = IF r.raised = "" THEN Append(registries, r.self[1])
                         ELSE registries
        /\ call' = [Idle EXCEPT !.op = "generate_registry_by_filtering",
                                !.self = self, !.metrics = names,
                                !.prefix = Some(prefix)]
        /\ ret' = [raised |-> r.raised,
                   value |-> IF r.raised = "" THEN Some(Len(registries) + 1)
                             ELSE None]
        /\ UNCHANGED threads

\* registries[self].list_all_metrics_names()
ListAllMetricsNames(self) ==
    /\ call.op = "idle"
    /\ call' = [Idle EXCEPT !.op = "list_all_metrics_names", !.self = self]
    /\ ret' = [raised |-> "", value |-> Some(list_all_metrics_names(registries[self]))]
    /\ UNCHANGED <<registries_prefixes, registries, threads>>

\* registries[self].get_metrics_by_full_name(full_name=name)
GetMetricsByFullName(self, name) ==
    /\ call.op = "idle"
    /\ call' = [Idle EXCEPT !.op = "get_metrics_by_full_name", !.self = self,
                            !.name = name]
    /\ ret' = get_metrics_by_full_name(registries[self], name)
    /\ UNCHANGED <<registries_prefixes, registries, threads>>

\* registries[self].get_enum_from_metrics()
GetEnumFromMetrics(self) ==
    /\ call.op = "idle"
    /\ call' = [Idle EXCEPT !.op = "get_enum_from_metrics", !.self = self]
    /\ ret' = get_enum_from_metrics(registries[self])
    /\ UNCHANGED <<registries_prefixes, registries, threads>>

\* The caller takes the result (or the exception) and the call is over.
Return ==
    /\ call.op # "idle"
    /\ call' = Idle
    /\ ret' = NoRet
    /\ UNCHANGED <<registries_prefixes, registries, threads>>

\* A call is served only when the one before it has returned.
Next ==
    \/ /\ call.op = "idle"
       /\ \E metrics \in SeqsUpTo(MetricsPool, MaxMetrics), prefix \in PrefixArgs :
              Construct(metrics, prefix)
    \/ /\ call.op = "idle"
       /\ \E self \in 1..Len(registries),
             names \in SeqsUpTo(RequestedNames, MaxNames),
             prefix \in PrefixArgs \ {None} :
              GenerateRegistryByFiltering(self, names, prefix[1])
    \/ /\ call.op = "idle"
       /\ \E self \in 1..Len(registries) : ListAllMetricsNames(self)
    \/ /\ call.op = "idle"
       /\ \E self \in 1..Len(registries), name \in RequestedNames :
              GetMetricsByFullName(self, name)
    \/ /\ call.op = "idle"
       /\ \E self \in 1..Len(registries) : GetEnumFromMetrics(self)
    \/ Return

Spec == Init /\ [][Next]_vars

-----------------------------------------------------------------------------
(* Properties of sequential use                                            *)

\* The prefix a construction asks for: "" when the argument is omitted.
RequestedPrefix(c) == IF c.prefix = None THEN "" ELSE c.prefix[1]

\* A step that serves a constructor call, direct or through filtering.
IsConstruction(c) == c.op \in {"__init__", "generate_registry_by_filtering"}

\* The position of key k in dict d (0 when absent).
PosOf(d, k) == IF DictHas(d, k) THEN CHOOSE i \in 1..Len(d) : d[i].key = k ELSE 0

\* No key occurs twice in d.
KeysDistinct(d) == \A i, j \in 1..Len(d) : d[i].key = d[j].key => i = j

\* C1: a construction (direct or through generate_registry_by_filtering) whose
\* prefix, "" when omitted, is already in the global namespace raises
\* ValueError and leaves the namespace and the registries as they were; one
\* whose prefix is not in the namespace succeeds and registers it, whatever
\* failed before.
C1_UsedPrefixRaises ==
    [][(call.op = "idle" /\ IsConstruction(call')) =>
         IF RequestedPrefix(call') \in DOMAIN registries_prefixes
         THEN /\ ret'.raised = "ValueError"
              /\ registries_prefixes' = registries_prefixes
              /\ registries' = registries
         ELSE /\ ret'.raised = ""
              /\ DOMAIN registries_prefixes' =
                     DOMAIN registries_prefixes \cup {RequestedPrefix(call')}
              /\ Len(registries') = Len(registries) + 1
              /\ registries'[Len(registries')].prefix = RequestedPrefix(call')]_vars

\* C1 witness: filtering with the omitted-prefix registry's "" has raised.
C1_Witness ==
    /\ call.op = "generate_registry_by_filtering"
    /\ call.prefix = Some("")
    /\ ret.raised = "ValueError"
    /\ Len(registries) = 2

\* C2: the registries constructed so far have pairwise distinct prefixes, all
\* of them in the namespace (so at most one has the prefix ""), and no step
\* removes a prefix from the namespace or a registry from those constructed.
C2_PrefixesDistinctAndKept ==
    /\ [](/\ \A i, j \in 1..Len(registries) :
                registries[i].prefix = registries[j].prefix => i = j
          /\ \A i \in 1..Len(registries) :
                registries[i].prefix \in DOMAIN registries_prefixes
          /\ Cardinality({i \in 1..Len(registries) : registries[i].prefix = ""}) <= 1)
    /\ [][/\ DOMAIN registries_prefixes \subseteq DOMAIN registries_prefixes'
          /\ Len(registries') >= Len(registries)
          /\ SubSeq(registries', 1, Len(registries)) = registries]_vars

\* C2 witness: three registries exist and a further construction has failed.
C2_Witness ==
    /\ Len(registries) = 3
    /\ call.op = "__init__"
    /\ ret.raised = "ValueError"

C6_LookupIgnoresCase ==
    [][(call.op = "idle" /\ call'.op = "get_metrics_by_full_name") =>
         LET R == registries[call'.self].metrics
         IN  /\ registries' = registries
             /\ registries_prefixes' = registries_prefixes
             /\ \A i \in 1..Len(R) :
                    R[i].key = StrUpper(call'.name) =>
                        ret' = [raised |-> "", value |-> Some(R[i].value)]
             /\ (\A i \in 1..Len(R) : R[i].key # StrUpper(call'.name)) =>
                    ret' = [raised |-> "KeyError", value |-> None]]_vars

\* C6 witness: a lookup by a lowercase spelling has returned a Metrics.
C6_Witness ==
    /\ call.op = "get_metrics_by_full_name"
    /\ call.name # StrUpper(call.name)
    /\ ret.raised = ""
    /\ full_name(ret.value[1]) = StrUpper(call.name)

\* C7: get_enum_from_metrics of every constructed registry returns an
\* enumeration named prefix + "Metrics" whose member names and values are
\* exactly the registry's full names, a name no other registry's enumeration has.
C7_EnumHasAllFullNames ==
    call.op = "get_enum_from_metrics" =>
        LET R == registries[call.self]
        IN  /\ ret.raised = ""
            /\ ret.value[1].name = R.prefix \o "Metrics"
            /\ ret.value[1].members =
                   [i \in 1..Len(R.metrics) |-> <<R.metrics[i].key, R.metrics[i].key>>]
            /\ \A j \in 1..Len(registries) :
                   j # call.self =>
                       registries[j].prefix \o "Metrics" # ret.value[1].name

\* C9: a registry built from a list holds one entry per distinct full name of
\* the list, in order of first occurrence, each bound to the last Metrics of
\* the list with that full name; Metrics that differ only by aggregation have
\* different full names, hence entries of their own.
C9_OneEntryPerFullName ==
    (call.op = "__init__" /\ ret.raised = "") =>
        LET L == call.metrics
            N == registries[ret.value[1]].metrics
            First(k) == CHOOSE i \in 1..Len(L) :
                            /\ full_name(L[i]) = k
                            /\ \A h \in 1..(i - 1) : full_name(L[h]) # k
            Last(k) == CHOOSE i \in 1..Len(L) :
                            /\ full_name(L[i]) = k
                            /\ \A h \in (i + 1)..Len(L) : full_name(L[h]) # k
        IN  /\ KeysDistinct(N)
            /\ {N[j].key : j \in 1..Len(N)} = {full_name(L[i]) : i \in 1..Len(L)}
            /\ \A j \in 1..Len(N) : N[j].value = L[Last(N[j].key)]
            /\ \A j, k \in 1..Len(N) : j < k => First(N[j].key) < First(N[k].key)
            /\ \A a, b \in 1..Len(L) :
                   (/\ L[a].name = L[b].name
                    /\ L[a].unit = L[b].unit
                    /\ L[a].is_cumulative = L[b].is_cumulative
                    /\ L[a].aggregation # L[b].aggregation) =>
                       /\ full_name(L[a]) # full_name(L[b])
                       /\ PosOf(N, full_name(L[a])) # PosOf(N, full_name(L[b]))
                       /\ PosOf(N, full_name(L[a])) > 0
                       /\ PosOf(N, full_name(L[b])) > 0

\* C9 witness: a registry built from two Metrics with one full name and
\* different fields holds the second one.
C9_Witness ==
    /\ call.op = "__init__"
    /\ ret.raised = ""
    /\ Len(call.metrics) = 2
    /\ full_name(call.metrics[1]) = full_name(call.metrics[2])
    /\ call.metrics[1] # call.metrics[2]
    /\ registries[ret.value[1]].metrics =
           <<[key |-> full_name(call.metrics[2]), value |-> call.metrics[2]]>>

-----------------------------------------------------------------------------
(* Concurrent construction: each thread runs MetricsRegistry.__init__ once, *)
(* and the interpreter may switch threads between any two statements.       *)

NumThreads == 2

Threads == 1..NumThreads

\* What the threads construct: an empty and a one-element registry.
ThreadMetrics == {<<>>, <<TEMPERATURE>>}

\* Line 95, the test: the statement the thread runs next, the namespace as it
\* leaves it.
CheckStep(prefixes, self) ==
    IF self.prefix \in get_prefixes(prefixes)
    THEN [pc |-> "raise", prefixes |-> prefixes]
    ELSE [pc |-> "add", prefixes |-> prefixes]

\* A registration that looks the prefix up again and gives up when it is taken.
RegisterStepIfAbsent(prefixes, self) ==
    IF self.prefix \in get_prefixes(prefixes)
    THEN [pc |-> "raise", prefixes |-> prefixes]
    ELSE [pc |-> "done", prefixes |-> add_prefix(prefixes, self.prefix)]

\* Line 100, the else branch: self._add_prefix(prefix=self._prefix), after
\* which __init__ returns.
RegisterStep(prefixes, self) ==
    [pc |-> "done", prefixes |-> add_prefix(prefixes, self.prefix)]

InitThreads ==
    /\ registries_prefixes = AggregatedCreated.prefixes
    /\ registries = <<MAIN_METRICS_REGISTRY, METRICS_AND_AGGREGATION_REGISTRY>>
    /\ threads = [t \in Threads |-> [pc |-> "start", self |-> None]]
    /\ call = Idle
    /\ ret = NoRet

\* Lines 89-93: self._metrics and self._prefix are set.
Begin(t, metrics, prefix) ==
    /\ threads[t].pc = "start"
    /\ threads' = [threads EXCEPT ![t] = [pc |-> "check",
                                          self |-> Some(NewRegistry(metrics, prefix))]]
    /\ UNCHANGED <<registries_prefixes, registries, call, ret>>

\* Line 95: if self._prefix in self._get_prefixes()
Check(t) ==
    /\ threads[t].pc = "check"
    /\ LET r == CheckStep(registries_prefixes, threads[t].self[1])
       IN  /\ threads' = [threads EXCEPT ![t].pc = r.pc]
           /\ registries_prefixes' = r.prefixes
    /\ UNCHANGED <<registries, call, ret>>

\* Lines 96-98: raise ValueError(...); the object is never returned.
Raise(t) ==
    /\ threads[t].pc = "raise"
    /\ threads' = [threads EXCEPT ![t].pc = "raised"]
    /\ UNCHANGED <<registries_prefixes, registries, call, ret>>

\* Line 100 and the return of the constructor.
Register(t) ==
    /\ threads[t].pc = "add"
    /\ LET r == RegisterStep(registries_prefixes, threads[t].self[1])
       IN  /\ threads' = [threads EXCEPT ![t].pc = r.pc]
           /\ registries_prefixes' = r.prefixes
           /\ registries' = IF r.pc = "done"
                            THEN Append(registries, threads[t].self[1])
                            ELSE registries
    /\ UNCHANGED <<call, ret>>

NextThreads ==
    \/ \E t \in Threads, metrics \in ThreadMetrics, prefix \in PrefixArgs :
           Begin(t, metrics, prefix)
    \/ \E t \in Threads : Check(t)
    \/ \E t \in Threads : Raise(t)
    \/ \E t \in Threads : Register(t)

SpecThreads == InitThreads /\ [][NextThreads]_vars

\* C10: the test of line 95 and the registration of line 100 are separate
\* steps and nothing is held between them: a thread that passed the test
\* registers and returns its registry whatever the namespace holds by then,
\* the test itself registers nothing, and so two threads that both passed the
\* test for one prefix before either registered both succeed, leaving two
\* registries with one prefix.
C10_CheckThenSetIsNotAtomic ==
    /\ [][\A t \in Threads :
            /\ (threads[t].pc = "check" /\ threads'[t].pc # "check") =>
                   /\ registries_prefixes' = registries_prefixes
                   /\ threads'[t].pc = "add" <=>
                          threads[t].self[1].prefix \notin DOMAIN registries_prefixes
            /\ (threads[t].pc = "add" /\ threads'[t].pc # "add") =>
                   /\ threads'[t].pc = "done"
                   /\ registries' = Append(registries, threads[t].self[1])
                   /\ DOMAIN registries_prefixes' =
                          DOMAIN registries_prefixes \cup {threads[t].self[1].prefix}]_vars
    /\ [](\A t, u \in Threads :
            (/\ t # u
             /\ threads[t].pc = "done" /\ threads[u].pc = "done"
             /\ threads[t].self[1].prefix = threads[u].self[1].prefix) =>
                \E i, j \in 1..Len(registries) :
                    /\ i # j
                    /\ registries[i].prefix = registries[j].prefix
                    /\ registries[i].prefix = threads[t].self[1].prefix)

\* C10 witness: two threads have returned registries with the same prefix.
C10_Witness ==
    \E t, u \in Threads :
        /\ t # u
        /\ threads[t].pc = "done" /\ threads[u].pc = "done"
        /\ threads[t].self[1].prefix = threads[u].self[1].prefix
        /\ \E i, j \in 1..Len(registries) :
               i # j /\ registries[i].prefix = registries[j].prefix

-----------------------------------------------------------------------------
(* Metrics on their own: construction, dict() and the derivation            *)
(* derivation of metrics.py lines 156-159: the constructor called with      *)
(* the keywords of m.dict() and an aggregation.                             *)

RawNames ==
    {<<"t","e","m","p","e","r","a","t","u","r","e">>,
     <<"r","a","i","n"," ","f","a","l","l">>,
     <<" ","W","i","n","d"," "," ","s","p","e","e","d"," ">>,
     <<"_","t","_">>,
     <<>>}

Units == {"C", "km/h"}

OptionalAggregation == {None} \cup {Some(a) : a \in Aggregation}

\* m = Metrics(name=name, unit=unit, is_cumulative=..., aggregation=...)
MetricsNew(name, unit, is_cumulative, aggregation) ==
    /\ call.op = "idle"
    /\ call' = [Idle EXCEPT !.op = "Metrics", !.name = name]
    /\ ret' = [raised |-> "",
               value |-> Some(Metrics(name, unit, is_cumulative, aggregation))]
    /\ UNCHANGED <<registries_prefixes, registries, threads>>

\* The derivation from a constructed m: keywords of m.dict(), aggregation=agg
MetricsDerive(m, agg) ==
    /\ call.op = "idle"
    /\ call' = [Idle EXCEPT !.op = "derive", !.metrics = <<m>>,
                            !.prefix = Some(agg)]
    /\ ret' = MetricsFromDict(dict(m), agg)
    /\ UNCHANGED <<registries_prefixes, registries, threads>>

NextMetrics ==
    \/ /\ call.op = "idle"
       /\ \E name \in RawNames, unit \in Units, is_cumulative \in BOOLEAN,
             aggregation \in OptionalAggregation :
              MetricsNew(name, unit, is_cumulative, aggregation)
    \/ /\ call.op = "idle"
       /\ \E name \in RawNames, unit \in Units, is_cumulative \in BOOLEAN,
             aggregation \in OptionalAggregation, agg \in Aggregation :
              MetricsDerive(Metrics(name, unit, is_cumulative, aggregation), agg)
    \/ Return

SpecMetrics == Init /\ [][NextMetrics]_vars

\* C8 as stated: for any Metrics m, the derivation from m.dict() and agg
\* succeeds, has m's name, unit and is_cumulative, and a full name other
\* than m's.
C8_AnyMetricsRoundTrips ==
    call.op = "derive" =>
        /\ ret.raised = ""
        /\ ret.value[1].name = call.metrics[1].name
        /\ ret.value[1].unit = call.metrics[1].unit
        /\ ret.value[1].is_cumulative = call.metrics[1].is_cumulative
        /\ full_name(ret.value[1]) # full_name(call.metrics[1])

\* C8 amended: for any Metrics m whose aggregation is unset,
\* the derivation from m.dict() and agg succeeds, has m's name, unit and
\* is_cumulative and the aggregation agg, and a full name other than m's.
C8_UnaggregatedMetricsRoundTrips ==
    (call.op = "derive" /\ call.metrics[1].aggregation = None) =>
        /\ ret.raised = ""
        /\ ret.value[1].name = call.metrics[1].name
        /\ ret.value[1].unit = call.metrics[1].unit
        /\ ret.value[1].is_cumulative = call.metrics[1].is_cumulative
        /\ ret.value[1].aggregation = call.prefix
        /\ full_name(ret.value[1]) # full_name(call.metrics[1])

\* C8 witness: a Metrics without aggregation, whose name was normalized from
\* a name with whitespace, has been derived into one with an aggregation.
C8_Witness ==
    /\ call.op = "derive"
    /\ call.metrics[1].aggregation = None
    /\ call.metrics[1].name = <<"W","I","N","D","_","S","P","E","E","D">>
    /\ ret.raised = ""
    /\ full_name(ret.value[1]) =
           <<"W","I","N","D","_","S","P","E","E","D","_","M","A","X">>

-----------------------------------------------------------------------------
(* dataframes.py: the Timeseries schema and filter_metrics                  *)

MaxRows == 2   \* most rows of an input table

\* Timeseries.metrics: isin=MAIN_METRICS_REGISTRY.list_all_metrics_names()
TimeseriesMetricsIsin == list_all_metrics_names(MAIN_METRICS_REGISTRY)

RAINFALL == <<"R","A","I","N","F","A","L","L">>

\* The metrics, timestamp and value cells of the rows given to the filter.
RowCells ==
    [metrics : {full_name(TEMPERATURE), full_name(RAIN_FALL), RAINFALL},
     timestamp : {1, 2}, value : {1}]

TimestampDtypes == {"datetime64[ns]", "object"}
ValueDtypes == {"float64", "int64"}

\* Names a caller may allow: two of the schema, one of another registry, one
\* in another casing.
AllowNames ==
    {full_name(TEMPERATURE), full_name(RAIN_FALL), full_name(TEMPERATURE_MIN),
     <<"t","e","m","p","e","r","a","t","u","r","e">>}

\* pandas.DataFrame(data={...}): the rows under a RangeIndex, each column
\* with its dtype.
DataFrame(cells, timestamp_dtype, value_dtype) ==
    [dtypes |-> [timestamp |-> timestamp_dtype, value |-> value_dtype],
     rows |-> [i \in 1..Len(cells) |->
                  [index |-> i - 1, metrics |-> cells[i].metrics,
                   timestamp |-> cells[i].timestamp, value |-> cells[i].value]]]

\* Timeseries.validate(data): every metrics value is in the isin list, the
\* timestamp column is a datetime column and the value column a float column.
TimeseriesValid(data) ==
    /\ \A i \in 1..Len(data.rows) : InList(data.rows[i].metrics, TimeseriesMetricsIsin)
    /\ data.dtypes.timestamp = "datetime64[ns]"
    /\ data.dtypes.value = "float64"

\* A flag column computed against the schema's names.
AssignIsInSchema(data, metrics) ==
    [data EXCEPT !.rows =
        [i \in 1..Len(data.rows) |->
            [index |-> data.rows[i].index, metrics |-> data.rows[i].metrics,
             timestamp |-> data.rows[i].timestamp, value |-> data.rows[i].value,
             is_in_metrics |-> InList(data.rows[i].metrics, TimeseriesMetricsIsin)]]]

\* data.assign(is_in_metrics=lambda df: df["metrics"].isin(metrics))
AssignIsInMetrics(data, metrics) ==
    [data EXCEPT !.rows =
        [i \in 1..Len(data.rows) |->
            [index |-> data.rows[i].index, metrics |-> data.rows[i].metrics,
             timestamp |-> data.rows[i].timestamp, value |-> data.rows[i].value,
             is_in_metrics |-> InList(data.rows[i].metrics, metrics)]]]

\* .query("is_in_metrics")
QueryIsInMetrics(data) ==
    [data EXCEPT !.rows = SelectSeq(data.rows, LAMBDA row : row.is_in_metrics)]

\* .drop(columns="is_in_metrics")
DropIsInMetrics(data) ==
    [data EXCEPT !.rows =
        [i \in 1..Len(data.rows) |->
            [index |-> data.rows[i].index, metrics |-> data.rows[i].metrics,
             timestamp |-> data.rows[i].timestamp, value |-> data.rows[i].value]]]

\* The body of filter_metrics
filter_metrics_body(data, metrics) ==
    DropIsInMetrics(QueryIsInMetrics(AssignIsInMetrics(data, metrics)))

\* A filter whose schema is applied to what the body returns.
filter_metrics_check_output(data, metrics) ==
    LET out == filter_metrics_body(data, metrics)
    IN  IF TimeseriesValid(out)
        THEN [raised |-> "", value |-> Some(out)]
        ELSE [raised |-> "SchemaError", value |-> None]

\* filter_metrics under @pandera.check_input(schema=Timeseries): the input is
\* validated, and only a valid input reaches the body.
filter_metrics(data, metrics) ==
    IF TimeseriesValid(data)
    THEN [raised |-> "", value |-> Some(filter_metrics_body(data, metrics))]
    ELSE [raised |-> "SchemaError", value |-> None]

\* data.pipe(filter_metrics, metrics=metrics)
FilterMetrics(data, metrics) ==
    /\ call.op = "idle"
    /\ call' = [Idle EXCEPT !.op = "filter_metrics", !.metrics = <<data>>,
                            !.name = metrics]
    /\ ret' = filter_metrics(data, metrics)
    /\ UNCHANGED <<registries_prefixes, registries, threads>>

NextFilter ==
    \/ /\ call.op = "idle"
       /\ \E cells \in SeqsUpTo(RowCells, MaxRows), td \in TimestampDtypes,
             vd \in ValueDtypes, metrics \in SeqsUpTo(AllowNames, MaxNames) :
              FilterMetrics(DataFrame(cells, td, vd), metrics)
    \/ Return

SpecFilter == Init /\ [][NextFilter]_vars

\* C4: when some row's metrics value is no full name of MAIN_METRICS_REGISTRY,
\* or the timestamp or value column has the wrong type, filter_metrics raises
\* the schema error and returns no rows, whatever the other rows and the
\* allow-list are.
C4_InvalidInputIsRejectedWhole ==
    call.op = "filter_metrics" =>
        LET data == call.metrics[1]
        IN  (\/ \E i \in 1..Len(data.rows) :
                   \A k \in 1..Len(MAIN_METRICS_REGISTRY.metrics) :
                       data.rows[i].metrics # MAIN_METRICS_REGISTRY.metrics[k].key
             \/ data.dtypes.timestamp # "datetime64[ns]"
             \/ data.dtypes.value # "float64") =>
                ret = [raised |-> "SchemaError", value |-> None]

\* C4 witness: a table with a valid first row and a misspelled second row,
\* neither name allowed or both, has been rejected.
C4_Witness ==
    /\ call.op = "filter_metrics"
    /\ Len(call.metrics[1].rows) = 2
    /\ call.metrics[1].rows[1].metrics = full_name(TEMPERATURE)
    /\ call.metrics[1].rows[2].metrics = RAINFALL
    /\ call.metrics[1].dtypes = [timestamp |-> "datetime64[ns]", value |-> "float64"]
    /\ call.name = <<full_name(TEMPERATURE)>>
    /\ ret.raised = "SchemaError"

\* C5: on a table that passes the schema, filter_metrics returns exactly the
\* rows whose metrics value is an element of the allow-list, in their order,
\* with the metrics, timestamp and value cells (and the index) they had and
\* no other column; allowed names found in no row match nothing.
C5_FilterKeepsAllowedRows ==
    (call.op = "filter_metrics" /\ TimeseriesValid(call.metrics[1])) =>
        LET in == call.metrics[1].rows
            allow == call.name
        IN  /\ ret.raised = ""
            /\ ret.value[1].dtypes = call.metrics[1].dtypes
            /\ LET out == ret.value[1].rows
               IN  /\ \A j \in 1..Len(out) :
                          /\ DOMAIN out[j] = {"index", "metrics", "timestamp", "value"}
                          /\ \E i \in 1..Len(in) : out[j] = in[i]
                          /\ \E l \in 1..Len(allow) : allow[l] = out[j].metrics
                   /\ \A i \in 1..Len(in) :
                          (\E l \in 1..Len(allow) : allow[l] = in[i].metrics) =>
                              \E j \in 1..Len(out) : out[j] = in[i]
                   /\ \A j, k \in 1..Len(out) : j < k => out[j].index < out[k].index

\* C5 witness: TEMPERATURE and RAIN_FALL rows filtered with the allow-list
\* TEMPERATURE plus a name of no row: only the TEMPERATURE row is returned.
C5_Witness ==
    /\ call.op = "filter_metrics"
    /\ Len(call.metrics[1].rows) = 2
    /\ call.metrics[1].rows[1].metrics = full_name(TEMPERATURE)
    /\ call.metrics[1].rows[2].metrics = full_name(RAIN_FALL)
    /\ call.name = <<full_name(TEMPERATURE), full_name(TEMPERATURE_MIN)>>
    /\ ret.raised = ""
    /\ ret.value[1].rows = <<call.metrics[1].rows[1]>>

=============================================================================
